---- MODULE Spec2Model ----
(***************************************************************************)
(* NutriScan: the incremental multi-image analysis aggregator of App.tsx.  *)
(* The App component's state, its navigation handlers, the batch handler   *)
(* handleImagesSelected with its per-image continuation processFile, the   *)
(* queued functional state updates (merge and finalize) and the history.   *)
(*                                                                         *)
(* React applies queued functional updaters one at a time, in the order    *)
(* they were queued, each on the state the previous one produced; every    *)
(* action below applies the updaters its handler queues, in that order.    *)
(***************************************************************************)
EXTENDS Integers, Sequences, FiniteSets, TLC

\* ---------------------------------------------------------------- bounds
\* analyzeImage calls in one run of the application
MaxCalls == 4
\* handleImagesSelected calls in one run of the application
MaxBatches == 2
\* the largest localStorage quota, in units of SizeOf
MaxCapacity == 5
\* records handed to the history in one run of the persistence model
MaxAppends == 4
\* POST /api/analyze requests in one run of the server
MaxRequests == 3
\* canvas.toBlob callbacks outstanding at one time in the Scanner
MaxPending == 2
\* Scanner.tsx: const MAX_IMAGES = 5
MAX_IMAGES == 5

\* ---------------------------------------------------------------- values
\* JavaScript's undefined (an absent optional field) and null
Undefined == [undefined |-> TRUE]
Null == [null |-> TRUE]
\* an absent restaurantName (a string-typed optional)
NoName == "undefined"

AppViews == {"DASHBOARD", "CAMERA", "RESULTS", "HISTORY"}
ScanModes == {"RECEIPT", "MENU"}

Macros(c, p, cb, f) == [calories |-> c, protein |-> p, carbs |-> cb, fat |-> f]
Item(n, m) == [name |-> n, macros |-> m]
Text(s) == [fmt |-> s, args |-> <<>>]

\* The results analyzeImage can resolve with: one reports totalMacros and a
\* restaurantName, the other reports neither.
Results ==
  { [restaurantName |-> "Cafe A",
     items |-> << Item("salad", Macros(120, 4, 10, 7)), Item("soup", Macros(90, 3, 12, 2)) >>,
     totalMacros |-> Macros(215, 8, 22, 9),
     healthScore |-> 80,
     summary |-> Text("Mostly wholesome choices")],
    [restaurantName |-> NoName,
     items |-> << Item("fries", Macros(310, 4, 41, 15)), Item("cola", Macros(140, 0, 39, 0)),
                  Item("burger", Macros(540, 25, 40, 30)) >>,
     totalMacros |-> Undefined,
     healthScore |-> 60,
     summary |-> Text("Heavy on fried food")] }

\* Further results, for the specification that exercises the merge arithmetic:
\* a second restaurantName with the highest score, and a result with an empty
\* name, no items, no totalMacros and a low score.
ExtraResults ==
  { [restaurantName |-> "Cafe B",
     items |-> << Item("dal", Macros(180, 9, 24, 5)) >>,
     totalMacros |-> Macros(185, 9, 25, 5),
     healthScore |-> 100,
     summary |-> Text("One balanced dish")],
    [restaurantName |-> "",
     items |-> << >>,
     totalMacros |-> Undefined,
     healthScore |-> 5,
     summary |-> Text("Nothing edible found")] }

\* A rejected analyzeImage call
Failure == [failed |-> TRUE]
Outcomes == Results \cup {Failure}

\* ---------------------------------------------------------------- state
VARIABLES
  userProfile,      \* "null" until the profile form is saved
  currentView,
  isAnalyzing,
  scanMode,
  history,          \* sequence of BillAnalysis, most recent last
  currentAnalysis,  \* BillAnalysis or Null
  batches,          \* one entry per handleImagesSelected call: its closure
  obs,              \* per batch: what its continuations did (observation only)
  merged,           \* the results merged into currentAnalysis (cur) and into
                    \* each record of history (hist), in merge order, and the most
                    \* updates one render has processed (atOnce); observation only
  updateQueue,      \* setCurrentAnalysis calls not yet processed by a render
  storage,          \* localStorage key nutriscan_history and the persistence effect
  server,           \* server.js: scanHistory and the requests being handled
  scanner           \* Scanner.tsx: capturedImages and the pending toBlob callbacks

\* the state outside the App component's aggregation
outside == <<storage, server, scanner>>

vars == <<userProfile, currentView, isAnalyzing, scanMode, history,
          currentAnalysis, batches, obs, merged, updateQueue, outside>>

\* the shape of the state
TypeOK ==
  /\ userProfile \in {"null", "set"}
  /\ currentView \in AppViews
  /\ isAnalyzing \in BOOLEAN
  /\ scanMode \in ScanModes
  /\ Len(history) <= MaxBatches
  /\ \A i \in 1..Len(history) : history[i].scanProgress = Undefined
  /\ currentAnalysis = Null \/ currentAnalysis.type \in ScanModes
  /\ Len(batches) <= MaxBatches /\ Len(obs) = Len(batches)
  /\ Len(merged.hist) = Len(history)
  /\ Len(updateQueue) <= MaxBatches + MaxCalls
  /\ \A b \in 1..Len(batches) :
       /\ batches[b].files \in 1..MaxCalls
       /\ batches[b].pending \in 0..batches[b].files
       /\ batches[b].completedCount = batches[b].files - batches[b].pending
       /\ batches[b].pc \in {"awaiting", "done", "fatal"}
       /\ Len(obs[b].settled) = batches[b].completedCount

\* ---------------------------------------------------------------- helpers
\* (variant: rounding by adding 1 to the floor)
MathRound_Up(num, den) == (num \div den) + 1

\* Math.round(num / den) for num >= 0, den > 0: floor(num/den + 1/2)
MathRound(num, den) == (2 * num + den) \div (2 * den)

\* prev.scanProgress?.current || 0
ProgressCurrent(prev) ==
  IF prev.scanProgress = Undefined THEN 0 ELSE prev.scanProgress.current

\* (variant: result.restaurantName || prev.restaurantName, the latest name wins)
NameOr_Latest(a, b) == IF b = NoName \/ b = "" THEN a ELSE b

\* a || b on restaurant names: undefined and "" are falsy
NameOr(a, b) == IF a = NoName \/ a = "" THEN b ELSE a

RECURSIVE SumMacros(_)
SumMacros(items) ==
  IF items = <<>> THEN Macros(0, 0, 0, 0)
  ELSE LET h == Head(items).macros
           t == SumMacros(Tail(items))
       IN  Macros(h.calories + t.calories, h.protein + t.protein,
                  h.carbs + t.carbs, h.fat + t.fat)

AddMacros(a, b) ==
  Macros(a.calories + b.calories, a.protein + b.protein,
         a.carbs + b.carbs, a.fat + b.fat)

\* the initial composite of a batch
InitialAnalysis(id, mode, n) ==
  [id |-> id, date |-> id, type |-> mode,
   items |-> <<>>, healthScore |-> 0,
   summary |-> Text("Initiating parallel analysis..."),
   totalMacros |-> Macros(0, 0, 0, 0),
   restaurantName |-> NoName,
   scanProgress |-> [current |-> 0, total |-> n]]

\* (variant: the macros of the items are summed whether or not the result
\* reports totalMacros)
MergeSuccess_ItemSums(prev, result, filesLength) ==
  IF prev = Null THEN Null
  ELSE
    LET newItems  == prev.items \o result.items
        newMacros == AddMacros(prev.totalMacros, SumMacros(result.items))
        prevCount == ProgressCurrent(prev)
        newScore  == MathRound(prev.healthScore * prevCount + result.healthScore,
                               prevCount + 1)
        summary   == IF prevCount = 0 THEN result.summary
                     ELSE [fmt |-> "Analyzed %d items from %d images...",
                           args |-> <<Len(newItems), prevCount + 1>>]
    IN  [prev EXCEPT !.items = newItems,
                     !.totalMacros = newMacros,
                     !.healthScore = newScore,
                     !.summary = summary,
                     !.restaurantName = NameOr(prev.restaurantName, result.restaurantName),
                     !.scanProgress = [current |-> prevCount + 1, total |-> filesLength]]

\* (variant: the items of the result are put before those of the composite)
MergeSuccess_Prepend(prev, result, filesLength) ==
  IF prev = Null THEN Null
  ELSE
    LET newItems  == result.items \o prev.items
        newMacros == IF result.totalMacros # Undefined
                     THEN AddMacros(prev.totalMacros, result.totalMacros)
                     ELSE AddMacros(prev.totalMacros, SumMacros(result.items))
        prevCount == ProgressCurrent(prev)
        newScore  == MathRound(prev.healthScore * prevCount + result.healthScore,
                               prevCount + 1)
        summary   == IF prevCount = 0 THEN result.summary
                     ELSE [fmt |-> "Analyzed %d items from %d images...",
                           args |-> <<Len(newItems), prevCount + 1>>]
    IN  [prev EXCEPT !.items = newItems,
                     !.totalMacros = newMacros,
                     !.healthScore = newScore,
                     !.summary = summary,
                     !.restaurantName = NameOr(prev.restaurantName, result.restaurantName),
                     !.scanProgress = [current |-> prevCount + 1, total |-> filesLength]]

\* the updater queued by processFile after a resolved analyzeImage call
MergeSuccess(prev, result, filesLength) ==
  IF prev = Null THEN Null
  ELSE
    LET newItems  == prev.items \o result.items
        newMacros == IF result.totalMacros # Undefined
                     THEN AddMacros(prev.totalMacros, result.totalMacros)
                     ELSE AddMacros(prev.totalMacros, SumMacros(result.items))
        prevCount == ProgressCurrent(prev)
        newScore  == MathRound(prev.healthScore * prevCount + result.healthScore,
                               prevCount + 1)
        summary   == IF prevCount = 0 THEN result.summary
                     ELSE [fmt |-> "Analyzed %d items from %d images...",
                           args |-> <<Len(newItems), prevCount + 1>>]
    IN  [prev EXCEPT !.items = newItems,
                     !.totalMacros = newMacros,
                     !.healthScore = newScore,
                     !.summary = summary,
                     !.restaurantName = NameOr(prev.restaurantName, result.restaurantName),
                     !.scanProgress = [current |-> prevCount + 1, total |-> filesLength]]

\* (variant: the catch block averages the failed call into the score as a 0)
MergeFailure_Scored(prev, filesLength) ==
  IF prev = Null THEN Null
  ELSE [prev EXCEPT !.healthScore =
                      MathRound(prev.healthScore * ProgressCurrent(prev),
                                ProgressCurrent(prev) + 1),
                    !.scanProgress =
                      [current |-> ProgressCurrent(prev) + 1, total |-> filesLength]]

\* the updater queued by processFile's catch block
MergeFailure(prev, filesLength) ==
  IF prev = Null THEN Null
  ELSE [prev EXCEPT !.scanProgress =
          [current |-> ProgressCurrent(prev) + 1, total |-> filesLength]]

\* the composite after the updater of one settled call
FoldOutcome(prev, outcome) ==
  IF outcome = Failure THEN MergeFailure(prev, 1) ELSE MergeSuccess(prev, outcome, 1)

\* (variant: processFile has no catch, a rejection leaves it)
CatchesRejection_Not == FALSE

\* processFile's try { await analyzeImage(...) } catch (err) { ... }
CatchesRejection == TRUE

\* (variant: the signal is raised by every call once one has finished)
IsFirstToFinish_Always(count) == count >= 1

\* `completedCount === 1`: this call is the first of its batch to finish
IsFirstToFinish(count) == count = 1

\* (variant: the finalize block stands after the try/catch, so it also runs
\* when the catch has)
FinalizeReached_AfterCatch(pc) == pc \in {"awaiting", "fatal"}

\* the finalize block follows `await Promise.all` inside the try: it is
\* reached when the await returns, not when it throws
FinalizeReached(pc) == pc = "awaiting"

\* finalState of the finalize updater
FinalState(prev) == [prev EXCEPT !.scanProgress = Undefined]

\* ResultsView's isStreaming
IsStreaming(analysis) ==
  /\ analysis.scanProgress # Undefined
  /\ analysis.scanProgress.current < analysis.scanProgress.total

\* A batch whose tasks have all settled continues after `await Promise.all`
\* in the same microtask checkpoint: nothing else runs before its finalize.
FinalizePending ==
  \E b \in 1..Len(batches) : batches[b].pending = 0 /\ batches[b].pc = "awaiting"

\* analyzeImage calls dispatched so far (for the bound MaxCalls only)
RECURSIVE CallsMade(_, _)
CallsMade(bs, b) == IF b > Len(bs) THEN 0 ELSE bs[b].files + CallsMade(bs, b + 1)

\* localStorage when the App mounts with nothing saved: the persistence effect
\* is due after the first render. saved is the parsed value of the key,
\* newest the record last handed to setHistory and appends their number
\* (observation only).
StorageStart(capacity) ==
  [saved |-> <<>>, capacity |-> capacity, effect |-> "due",
   newest |-> Null, appends |-> 0]

\* server.js at start: scanHistory is empty and no request has arrived.
\* succeeded lists the requests whose AI call has returned a result, in the
\* order of the returns, and response is the answer to the last GET
\* (observation only).
ServerStart ==
  [scanHistory |-> <<>>, requests |-> <<>>, succeeded |-> <<>>, response |-> Null]

\* Scanner when it mounts: no image captured, no canvas.toBlob callback
\* outstanding, the file chooser closed; handed lists the number of files
\* each call of onImagesSelected received (observation only)
ScannerStart ==
  [capturedImages |-> <<>>, pendingBlobs |-> 0, chooserOpen |-> FALSE,
   isAnalyzing |-> FALSE, handed |-> <<>>]

\* ---------------------------------------------------------------- Init
Init ==
  /\ userProfile = "null"
  /\ currentView = "DASHBOARD"
  /\ isAnalyzing = FALSE
  /\ scanMode = "RECEIPT"
  /\ history = <<>>
  /\ currentAnalysis = Null
  /\ batches = <<>>
  /\ obs = <<>>
  /\ merged = [cur |-> <<>>, hist |-> <<>>, atOnce |-> 0]
  /\ updateQueue = <<>>
  /\ storage = StorageStart(MaxCapacity)
  /\ server = ServerStart
  /\ scanner = ScannerStart

\* ---------------------------------------------------------------- navigation
\* ProfileForm onSave
SaveProfile ==
  /\ userProfile = "null"
  /\ userProfile' = "set"
  /\ UNCHANGED <<outside, currentView, isAnalyzing, scanMode, history, currentAnalysis, batches, obs, merged, updateQueue>>

\* the user acts on a rendered view: React has processed the updates queued
\* before it handles the next click
Rendered(view) ==
  /\ userProfile # "null"
  /\ currentView = view
  /\ ~FinalizePending
  /\ updateQueue = <<>>

handleScanClick(mode) ==
  /\ Rendered("DASHBOARD")
  /\ scanMode' = mode
  /\ currentView' = "CAMERA"
  /\ UNCHANGED <<outside, userProfile, isAnalyzing, history, currentAnalysis, batches, obs, merged, updateQueue>>

\* Scanner onCancel and onOpenHistory: the buttons exist only without the spinner
ScannerLeave(to) ==
  /\ Rendered("CAMERA")
  /\ ~isAnalyzing
  /\ currentView' = to
  /\ UNCHANGED <<outside, userProfile, isAnalyzing, scanMode, history, currentAnalysis, batches, obs, merged, updateQueue>>

\* ResultsView onBack
ResultsBack ==
  /\ Rendered("RESULTS")
  /\ currentAnalysis # Null
  /\ currentView' = "HISTORY"
  /\ UNCHANGED <<outside, userProfile, isAnalyzing, scanMode, history, currentAnalysis, batches, obs, merged, updateQueue>>

\* ResultsView onScanAnother: the button is hidden while streaming
ResultsScanAnother ==
  /\ Rendered("RESULTS")
  /\ currentAnalysis # Null
  /\ ~IsStreaming(currentAnalysis)
  /\ currentView' = "CAMERA"
  /\ UNCHANGED <<outside, userProfile, isAnalyzing, scanMode, history, currentAnalysis, batches, obs, merged, updateQueue>>

\* bottom navigation (Home, Tracker) and HistoryView onBack
BottomNav(to) ==
  /\ userProfile # "null"
  /\ currentView \in {"DASHBOARD", "HISTORY"}
  /\ ~FinalizePending
  /\ currentView' = to
  /\ UNCHANGED <<outside, userProfile, isAnalyzing, scanMode, history, currentAnalysis, batches, obs, merged, updateQueue>>

handleHistorySelect(i) ==
  /\ Rendered("HISTORY")
  /\ i <= Len(history)
  /\ currentAnalysis' = history[i]
  /\ currentView' = "RESULTS"
  /\ merged' = [merged EXCEPT !.cur = merged.hist[i]]
  /\ UNCHANGED <<outside, userProfile, isAnalyzing, scanMode, history, batches, obs, updateQueue>>

\* ---------------------------------------------------------------- the batch
\* Scanner handleFinish -> handleImagesSelected(files), up to the await
handleImagesSelected(n) ==
  /\ Rendered("CAMERA")
  /\ ~isAnalyzing
  /\ Len(batches) < MaxBatches
  /\ n <= MaxCalls - CallsMade(batches, 1)
  /\ LET id == Len(batches) + 1 IN
     /\ isAnalyzing' = TRUE
     /\ currentAnalysis' = InitialAnalysis(id, scanMode, n)
     /\ batches' = Append(batches,
          [files |-> n, mode |-> scanMode, pending |-> n, completedCount |-> 0,
           pc |-> "awaiting"])
     /\ obs' = Append(obs,
          [settled |-> <<>>, ready |-> 0, readySnap |-> Null,
           preFinal |-> Null, appended |-> 0])
     /\ merged' = [merged EXCEPT !.cur = <<>>]
  /\ UNCHANGED <<outside, userProfile, currentView, scanMode, history, updateQueue>>

\* processFile after analyzeImage resolved with result
processFileSuccess(b, result) ==
  /\ b <= Len(batches)
  /\ ~FinalizePending
  /\ batches[b].pending > 0
  /\ LET count == batches[b].completedCount + 1
         first == IsFirstToFinish(count)
         next == MergeSuccess(currentAnalysis, result, batches[b].files)
     IN
     /\ batches' = [batches EXCEPT ![b].completedCount = count,
                                   ![b].pending = @ - 1]
     /\ isAnalyzing' = IF first THEN FALSE ELSE isAnalyzing
     /\ currentView' = IF first THEN "RESULTS" ELSE currentView
     /\ currentAnalysis' = next
     /\ obs' = [obs EXCEPT ![b].settled = Append(@, result),
                           ![b].ready = IF first THEN @ + 1 ELSE @,
                           ![b].readySnap = IF first THEN next ELSE @]
     /\ merged' = [merged EXCEPT !.cur = Append(@, result)]
  /\ UNCHANGED <<outside, userProfile, scanMode, history, updateQueue>>

\* A rejection that leaves processFile: Promise.all rejects and the catch of
\* handleImagesSelected runs (alert, isAnalyzing false, DASHBOARD) in place of
\* finalize; pc "fatal" stands for the alert having been shown.
processFileRejects(b) ==
  /\ b <= Len(batches)
  /\ ~FinalizePending
  /\ batches[b].pending > 0
  /\ obs' = [obs EXCEPT ![b].settled = Append(@, Failure)]
  /\ batches' = [batches EXCEPT ![b].pending = @ - 1,
                                ![b].pc = IF @ = "awaiting" THEN "fatal" ELSE @]
  /\ isAnalyzing' = IF batches[b].pc = "awaiting" THEN FALSE ELSE isAnalyzing
  /\ currentView' = IF batches[b].pc = "awaiting" THEN "DASHBOARD" ELSE currentView
  /\ UNCHANGED <<outside, userProfile, scanMode, history, currentAnalysis, merged,
                 updateQueue>>

\* processFile after analyzeImage rejected. Its try/catch takes the rejection:
\* the catch block counts the call and queues the progress update.
processFileFailure(b) ==
  IF CatchesRejection
  THEN /\ b <= Len(batches)
       /\ ~FinalizePending
       /\ batches[b].pending > 0
       /\ obs' = [obs EXCEPT ![b].settled = Append(@, Failure)]
       /\ batches' = [batches EXCEPT ![b].completedCount = @ + 1,
                                     ![b].pending = @ - 1]
       /\ currentAnalysis' = MergeFailure(currentAnalysis, batches[b].files)
       /\ UNCHANGED <<outside, userProfile, currentView, isAnalyzing, scanMode,
                      history, merged, updateQueue>>
  ELSE processFileRejects(b)

\* handleImagesSelected after `await Promise.all(...)`: the finalize updater
Finalize(b) ==
  /\ b <= Len(batches)
  /\ FinalizeReached(batches[b].pc)
  /\ batches[b].pending = 0
  /\ batches' = [batches EXCEPT ![b].pc = "done"]
  /\ IF currentAnalysis # Null
     THEN /\ currentAnalysis' = FinalState(currentAnalysis)
          /\ history' = Append(history, FinalState(currentAnalysis))
          /\ obs' = [obs EXCEPT ![b].preFinal = currentAnalysis,
                                ![b].appended = @ + 1]
          /\ merged' = [merged EXCEPT !.hist = Append(@, merged.cur)]
     ELSE /\ UNCHANGED <<currentAnalysis, history, merged>>
          /\ obs' = obs
  /\ UNCHANGED <<outside, userProfile, currentView, isAnalyzing, scanMode, updateQueue>>

Next ==
  \/ SaveProfile
  \/ \E mode \in ScanModes : handleScanClick(mode)
  \/ \E to \in {"DASHBOARD", "HISTORY"} : ScannerLeave(to)
  \/ ResultsBack
  \/ ResultsScanAnother
  \/ \E to \in {"DASHBOARD", "HISTORY"} : BottomNav(to)
  \/ \E i \in 1..MaxBatches : handleHistorySelect(i)
  \/ \E n \in 1..MaxCalls : handleImagesSelected(n)
  \/ \E b \in 1..MaxBatches : \E r \in Results : processFileSuccess(b, r)
  \/ \E b \in 1..MaxBatches : processFileFailure(b)
  \/ \E b \in 1..MaxBatches : Finalize(b)

Spec == Init /\ [][Next]_vars

\* The same program when analyzeImage may also resolve with the further results
NextRich ==
  \/ Next
  \/ \E b \in 1..MaxBatches : \E result \in ExtraResults : processFileSuccess(b, result)

SpecRich == Init /\ [][NextRich]_vars

\* The same program when a rejection can leave processFile, so that dispatch
\* itself fails
NextFatal ==
  \/ Next
  \/ \E b \in 1..MaxBatches : processFileRejects(b)

SpecFatal == Init /\ [][NextFatal]_vars

\* ---------------------------------------------------------------- the update queue
\* Above, every setCurrentAnalysis call takes effect at once. React queues
\* the calls made by the continuations of a batch and processes the queue, in
\* order, when it next renders; several calls may settle before that. The
\* actions below are the same continuations with the queue made explicit.

\* (variant: setCurrentAnalysis({...currentAnalysis, ...}): the updater computes
\* from the currentAnalysis of the last render)
UpdaterInput_Rendered(pending, rendered) == rendered

\* setCurrentAnalysis(prev => ...): the functional updater is handed the state
\* the updates queued before it have produced
UpdaterInput(pending, rendered) == pending

\* one queued update applied to st = [analysis, history, merged, obs]
ApplyUpdate(st, u, rendered) ==
  LET prev == UpdaterInput(st.analysis, rendered) IN
  CASE u.kind = "merge" ->
         [st EXCEPT !.analysis = MergeSuccess(prev, u.result, u.files),
                    !.merged.cur = Append(@, u.result)]
    [] u.kind = "fail" ->
         [st EXCEPT !.analysis = MergeFailure(prev, u.files)]
    [] u.kind = "finalize" ->
         IF prev = Null THEN st
         ELSE [st EXCEPT !.analysis = FinalState(prev),
                         !.history = Append(@, FinalState(prev)),
                         !.merged.hist = Append(@, st.merged.cur),
                         !.obs[u.batch].preFinal = prev,
                         !.obs[u.batch].appended = @ + 1]

RECURSIVE ApplyUpdates(_, _, _)
ApplyUpdates(st, queue, rendered) ==
  IF queue = <<>> THEN st
  ELSE ApplyUpdates(ApplyUpdate(st, Head(queue), rendered), Tail(queue), rendered)

\* React renders: the queued updates are processed in the order of their calls
Render ==
  /\ updateQueue # <<>>
  /\ ~FinalizePending
  /\ LET st == ApplyUpdates([analysis |-> currentAnalysis, history |-> history,
                             merged |-> merged, obs |-> obs],
                            updateQueue, currentAnalysis)
     IN /\ currentAnalysis' = st.analysis
        /\ history' = st.history
        /\ merged' = [st.merged EXCEPT !.atOnce =
                        IF Len(updateQueue) > @ THEN Len(updateQueue) ELSE @]
        /\ obs' = st.obs
  /\ updateQueue' = <<>>
  /\ UNCHANGED <<outside, userProfile, currentView, isAnalyzing, scanMode, batches>>

processFileSuccess_Queued(b, result) ==
  /\ b <= Len(batches)
  /\ ~FinalizePending
  /\ batches[b].pending > 0
  /\ LET count == batches[b].completedCount + 1
         first == IsFirstToFinish(count)
     IN
     /\ batches' = [batches EXCEPT ![b].completedCount = count,
                                   ![b].pending = @ - 1]
     /\ isAnalyzing' = IF first THEN FALSE ELSE isAnalyzing
     /\ currentView' = IF first THEN "RESULTS" ELSE currentView
     /\ updateQueue' = Append(updateQueue,
          [kind |-> "merge", result |-> result, files |-> batches[b].files])
     /\ obs' = [obs EXCEPT ![b].settled = Append(@, result),
                           ![b].ready = IF first THEN @ + 1 ELSE @]
  /\ UNCHANGED <<outside, userProfile, scanMode, history, currentAnalysis, merged>>

processFileFailure_Queued(b) ==
  /\ b <= Len(batches)
  /\ ~FinalizePending
  /\ batches[b].pending > 0
  /\ CatchesRejection
  /\ batches' = [batches EXCEPT ![b].completedCount = @ + 1,
                                ![b].pending = @ - 1]
  /\ updateQueue' = Append(updateQueue, [kind |-> "fail", files |-> batches[b].files])
  /\ obs' = [obs EXCEPT ![b].settled = Append(@, Failure)]
  /\ UNCHANGED <<outside, userProfile, currentView, isAnalyzing, scanMode, history,
                 currentAnalysis, merged>>

Finalize_Queued(b) ==
  /\ b <= Len(batches)
  /\ FinalizeReached(batches[b].pc)
  /\ batches[b].pending = 0
  /\ batches' = [batches EXCEPT ![b].pc = "done"]
  /\ updateQueue' = Append(updateQueue, [kind |-> "finalize", batch |-> b])
  /\ UNCHANGED <<outside, userProfile, currentView, isAnalyzing, scanMode, history,
                 currentAnalysis, obs, merged>>

NextQueue ==
  \/ SaveProfile
  \/ \E mode \in ScanModes : handleScanClick(mode)
  \/ \E to \in {"DASHBOARD", "HISTORY"} : ScannerLeave(to)
  \/ ResultsBack
  \/ ResultsScanAnother
  \/ \E to \in {"DASHBOARD", "HISTORY"} : BottomNav(to)
  \/ \E i \in 1..MaxBatches : handleHistorySelect(i)
  \/ \E n \in 1..MaxCalls : handleImagesSelected(n)
  \/ \E b \in 1..MaxBatches : \E r \in Results : processFileSuccess_Queued(b, r)
  \/ \E b \in 1..MaxBatches : processFileFailure_Queued(b)
  \/ \E b \in 1..MaxBatches : Finalize_Queued(b)
  \/ Render

SpecQueue == Init /\ [][NextQueue]_vars

\* ---------------------------------------------------------------- persistence
\* The aggregation above runs with a quota no write exceeds. The actions
\* below are the history and its persistence effect alone, under a quota.

\* the length of JSON.stringify of a record, as far as it varies: a unit for
\* the fixed fields and one for each item
SizeOf(record) == 1 + Len(record.items)
RECURSIVE SizeOfAll(_)
SizeOfAll(records) ==
  IF records = <<>> THEN 0 ELSE SizeOf(Head(records)) + SizeOfAll(Tail(records))
\* localStorage.setItem('nutriscan_history', JSON.stringify(records)) does not throw
Fits(records) == SizeOfAll(records) <= storage.capacity

\* the record a batch of one image hands to setHistory when its call settles
\* with outcome
StoreRecord(id, outcome) ==
  FinalState(FoldOutcome(InitialAnalysis(id, "RECEIPT", 1), outcome))

\* finalize's setHistory(h => [...h, finalState])
StoreAppend(outcome) ==
  /\ storage.effect = "idle"
  /\ storage.appends < MaxAppends
  /\ LET record == StoreRecord(storage.appends + 1, outcome) IN
     /\ history' = Append(history, record)
     /\ storage' = [storage EXCEPT !.effect = "due", !.newest = record,
                                   !.appends = @ + 1]
  /\ UNCHANGED <<userProfile, currentView, isAnalyzing, scanMode, currentAnalysis,
                 batches, obs, merged, updateQueue, server, scanner>>

\* the useEffect on [history]: one run, and the re-render its setHistory causes
PersistEffect ==
  /\ storage.effect = "due"
  /\ IF Fits(history)
     THEN /\ storage' = [storage EXCEPT !.saved = history, !.effect = "idle"]
          /\ UNCHANGED history
     ELSE IF Len(history) > 1
     THEN LET trimmed == Tail(history) IN
          IF Fits(trimmed)
          THEN /\ history' = trimmed
               /\ storage' = [storage EXCEPT !.saved = trimmed, !.effect = "due"]
          ELSE \* the second setItem is outside the try: its exception leaves
               \* the effect and React unmounts the App
               /\ storage' = [storage EXCEPT !.effect = "escaped"]
               /\ UNCHANGED history
     ELSE /\ storage' = [storage EXCEPT !.effect = "idle"]
          /\ UNCHANGED history
  /\ UNCHANGED <<userProfile, currentView, isAnalyzing, scanMode, currentAnalysis,
                 batches, obs, merged, updateQueue, server, scanner>>

\* the page is loaded again: useState's initializer reads the saved history
Reload ==
  /\ storage.effect # "due"
  /\ history' = storage.saved
  /\ storage' = [storage EXCEPT !.effect = "due"]
  /\ UNCHANGED <<userProfile, currentView, isAnalyzing, scanMode, currentAnalysis,
                 batches, obs, merged, updateQueue, server, scanner>>

InitStore ==
  /\ userProfile = "set"
  /\ currentView = "DASHBOARD"
  /\ isAnalyzing = FALSE
  /\ scanMode = "RECEIPT"
  /\ history = <<>>
  /\ currentAnalysis = Null
  /\ batches = <<>>
  /\ obs = <<>>
  /\ merged = [cur |-> <<>>, hist |-> <<>>, atOnce |-> 0]
  /\ updateQueue = <<>>
  /\ \E capacity \in 0..MaxCapacity : storage = StorageStart(capacity)
  /\ server = ServerStart
  /\ scanner = ScannerStart

NextStore ==
  \/ \E outcome \in Outcomes : StoreAppend(outcome)
  \/ PersistEffect
  \/ Reload

SpecStore == InitStore /\ [][NextStore]_vars

\* ---------------------------------------------------------------- server.js
\* (variant: the metadata is parsed before the file is looked for)
EarlyStatus_ParseFirst(hasFile, metadataParses) ==
  IF ~metadataParses THEN 500 ELSE IF ~hasFile THEN 400 ELSE 0

\* POST /api/analyze up to the AI call: the status of the answer given
\* before it, 0 when the handler goes on to the call
EarlyStatus(hasFile, metadataParses) ==
  IF ~hasFile THEN 400 ELSE IF ~metadataParses THEN 500 ELSE 0

\* (variant: scanHistory[0])
LatestOf_First(scans) == scans[1]

\* scanHistory[scanHistory.length - 1]
LatestOf(scans) == scans[Len(scans)]

\* POST /api/analyze arrives; the handler runs up to `await generateObject`
PostAnalyze(hasFile, metadataParses) ==
  /\ Len(server.requests) < MaxRequests
  /\ LET status == EarlyStatus(hasFile, metadataParses) IN
     server' = [server EXCEPT !.requests = Append(@,
                 [hasFile |-> hasFile, metadataParses |-> metadataParses,
                  status |-> status,
                  ai |-> IF status = 0 THEN "pending" ELSE "none"])]
  /\ UNCHANGED <<userProfile, currentView, isAnalyzing, scanMode, history,
                 currentAnalysis, batches, obs, merged, updateQueue, storage, scanner>>

\* generateObject returns for request r: the result is pushed and sent
AiReturns(r) ==
  /\ r <= Len(server.requests)
  /\ server.requests[r].status = 0
  /\ server' = [server EXCEPT !.requests[r].status = 200,
                              !.requests[r].ai = "returned",
                              !.scanHistory = Append(@, [id |-> r]),
                              !.succeeded = Append(@, r)]
  /\ UNCHANGED <<userProfile, currentView, isAnalyzing, scanMode, history,
                 currentAnalysis, batches, obs, merged, updateQueue, storage, scanner>>

\* generateObject throws for request r: the catch answers 500
AiThrows(r) ==
  /\ r <= Len(server.requests)
  /\ server.requests[r].status = 0
  /\ server' = [server EXCEPT !.requests[r].status = 500,
                              !.requests[r].ai = "threw"]
  /\ UNCHANGED <<userProfile, currentView, isAnalyzing, scanMode, history,
                 currentAnalysis, batches, obs, merged, updateQueue, storage, scanner>>

\* GET /api/results
GetResults ==
  /\ server' = [server EXCEPT !.response =
        [path |-> "results", status |-> 200, total |-> Len(server.scanHistory),
         history |-> server.scanHistory]]
  /\ UNCHANGED <<userProfile, currentView, isAnalyzing, scanMode, history,
                 currentAnalysis, batches, obs, merged, updateQueue, storage, scanner>>

\* GET /api/results/latest
GetLatest ==
  /\ server' = [server EXCEPT !.response =
        IF Len(server.scanHistory) = 0
        THEN [path |-> "latest", status |-> 404]
        ELSE [path |-> "latest", status |-> 200, body |-> LatestOf(server.scanHistory)]]
  /\ UNCHANGED <<userProfile, currentView, isAnalyzing, scanMode, history,
                 currentAnalysis, batches, obs, merged, updateQueue, storage, scanner>>

NextServer ==
  \/ \E hasFile, metadataParses \in BOOLEAN : PostAnalyze(hasFile, metadataParses)
  \/ \E r \in 1..MaxRequests : AiReturns(r)
  \/ \E r \in 1..MaxRequests : AiThrows(r)
  \/ GetResults
  \/ GetLatest

SpecServer == Init /\ [][NextServer]_vars

\* ---------------------------------------------------------------- Scanner.tsx
AppUnchanged ==
  UNCHANGED <<userProfile, currentView, isAnalyzing, scanMode, history,
              currentAnalysis, batches, obs, merged, updateQueue, storage, server>>

\* [...prev, ...newFiles].slice(0, MAX_IMAGES)
SliceToMax(images) ==
  IF Len(images) <= MAX_IMAGES THEN images ELSE SubSeq(images, 1, MAX_IMAGES)

\* prev.filter((_, i) => i !== index), index counted from 1 here
WithoutIndex(images, index) ==
  [i \in 1..(Len(images) - 1) |-> IF i < index THEN images[i] ELSE images[i + 1]]

\* the shutter / Add button: the guard reads the rendered capturedImages, the
\* image is appended later by the canvas.toBlob callback
handleCapture ==
  /\ ~scanner.isAnalyzing
  /\ ~scanner.chooserOpen
  /\ Len(scanner.capturedImages) < MAX_IMAGES
  /\ scanner.pendingBlobs < MaxPending
  /\ scanner' = [scanner EXCEPT !.pendingBlobs = @ + 1]
  /\ AppUnchanged

\* the canvas.toBlob callback: appends when it got a blob
BlobCallback(hasBlob) ==
  /\ scanner.pendingBlobs > 0
  /\ scanner' = [scanner EXCEPT
        !.pendingBlobs = @ - 1,
        !.capturedImages = IF hasBlob THEN Append(@, "captured") ELSE @]
  /\ AppUnchanged

\* the Upload button, shown while nothing is captured: opens the file
\* chooser, a modal dialog (no click reaches the page until it closes)
UploadClick ==
  /\ ~scanner.isAnalyzing
  /\ scanner.capturedImages = <<>>
  /\ ~scanner.chooserOpen
  /\ scanner' = [scanner EXCEPT !.chooserOpen = TRUE]
  /\ AppUnchanged

\* the file input's onChange with n chosen files
FilesChosen(n) ==
  /\ scanner.chooserOpen
  /\ scanner' = [scanner EXCEPT
        !.chooserOpen = FALSE,
        !.capturedImages = SliceToMax(@ \o [i \in 1..n |-> "uploaded"])]
  /\ AppUnchanged

removeImage(index) ==
  /\ ~scanner.isAnalyzing
  /\ ~scanner.chooserOpen
  /\ index <= Len(scanner.capturedImages)
  /\ scanner' = [scanner EXCEPT !.capturedImages = WithoutIndex(@, index)]
  /\ AppUnchanged

\* the Clear button, shown while something is captured
ClearImages ==
  /\ ~scanner.isAnalyzing
  /\ ~scanner.chooserOpen
  /\ scanner.capturedImages # <<>>
  /\ scanner' = [scanner EXCEPT !.capturedImages = <<>>]
  /\ AppUnchanged

\* the Analyze button, shown while something is captured; the App answers
\* onImagesSelected by setting isAnalyzing
handleFinish ==
  /\ ~scanner.isAnalyzing
  /\ ~scanner.chooserOpen
  /\ Len(scanner.capturedImages) > 0
  /\ scanner' = [scanner EXCEPT !.handed = Append(@, Len(scanner.capturedImages)),
                                !.isAnalyzing = TRUE]
  /\ AppUnchanged

\* the Scanner is unmounted (first result, or the user leaves) and a new one
\* mounted later; callbacks of the old one no longer reach any state
ScannerRemount ==
  /\ scanner # ScannerStart
  /\ scanner' = ScannerStart
  /\ AppUnchanged

NextScanner ==
  \/ handleCapture
  \/ \E hasBlob \in BOOLEAN : BlobCallback(hasBlob)
  \/ UploadClick
  \/ \E n \in 1..(MAX_IMAGES + 1) : FilesChosen(n)
  \/ \E index \in 1..(MAX_IMAGES + MaxPending) : removeImage(index)
  \/ ClearImages
  \/ handleFinish
  \/ ScannerRemount

SpecScanner == Init /\ [][NextScanner]_vars

\* ================================================================ claims
\* ---------------------------------------------------------------- vocabulary
Batches == 1..Len(batches)
IsSuccess(o) == o # Failure
Successes(outs) == SelectSeq(outs, IsSuccess)
Finalized(b) == batches[b].pc = "done"
\* the record batch b's finalize appended to history
FinalRecord(b) == FinalState(obs[b].preFinal)

RECURSIVE SumScores(_)
SumScores(outs) ==
  IF outs = <<>> THEN 0 ELSE Head(outs).healthScore + SumScores(Tail(outs))

\* the composite a batch of n files reaches when its calls settle in the order
\* `outs` and nothing else touches currentAnalysis
RECURSIVE FoldMerge(_, _, _)
FoldMerge(state, outs, n) ==
  IF outs = <<>> THEN state
  ELSE FoldMerge(IF IsSuccess(Head(outs)) THEN MergeSuccess(state, Head(outs), n)
                 ELSE MergeFailure(state, n),
                 Tail(outs), n)

Perms(n) == {p \in [1..n -> 1..n] : \A i, j \in 1..n : p[i] = p[j] => i = j}
Permute(outs, p) == [i \in 1..Len(outs) |-> outs[p[i]]]
\* every composite batch b can end with when its outcomes settle in some order
Orders(b) ==
  { FoldMerge(InitialAnalysis(b, batches[b].mode, batches[b].files),
              Permute(obs[b].settled, p), batches[b].files)
    : p \in Perms(Len(obs[b].settled)) }

ItemBag(items) ==
  [x \in {items[i] : i \in 1..Len(items)} |->
     Cardinality({i \in 1..Len(items) : items[i] = x})]

\* ---------------------------------------------------------------- C1
\* C1: for every batch of N files, the composite the finalize updater finds
\* (immediately before it clears scanProgress) has current = total = N.
C1_ProgressCompleteAtFinalize ==
  \A b \in Batches :
    Finalized(b) =>
      obs[b].preFinal.scanProgress =
        [current |-> batches[b].files, total |-> batches[b].files]

\* ---------------------------------------------------------------- C2
\* C2: the finalized healthScore of a batch with at least one success is the
\* rounded average of the scores of its successes alone (failures carry no
\* weight); with outcomes {failure, 80 with 2 items, 60 with 3 items} the
\* record has healthScore 70 and 5 items after progress 3/3.
C2_ScoreFromSuccessesOnly ==
  \A b \in Batches :
    (Finalized(b) /\ Successes(obs[b].settled) # <<>>) =>
      LET succ == Successes(obs[b].settled) IN
      /\ FinalRecord(b).healthScore = MathRound(SumScores(succ), Len(succ))
      /\ (batches[b].files = 3 /\ Len(succ) = 2 /\ SumScores(succ) = 140) =>
           /\ FinalRecord(b).healthScore = 70
           /\ Len(FinalRecord(b).items) = 5
           /\ obs[b].preFinal.scanProgress = [current |-> 3, total |-> 3]

\* ---------------------------------------------------------------- C3
\* C3: the finalized healthScore of a batch is the one every settlement order
\* of the same outcomes ends with.
C3_ScoreOrderIndependent ==
  \A b \in Batches :
    Finalized(b) =>
      \A c \in Orders(b) : c.healthScore = FinalRecord(b).healthScore

\* ---------------------------------------------------------------- C4
\* C4: the finalized item multiset, totalMacros and completed count of a
\* batch are the ones every settlement order of the same outcomes ends with.
C4_MergeOrderIndependent ==
  \A b \in Batches :
    Finalized(b) =>
      \A c \in Orders(b) :
        /\ ItemBag(c.items) = ItemBag(obs[b].preFinal.items)
        /\ c.totalMacros = obs[b].preFinal.totalMacros
        /\ c.scanProgress = obs[b].preFinal.scanProgress

\* ---------------------------------------------------------------- C5
\* the number of analyzeImage calls not yet settled, over all batches
RECURSIVE PendingFrom(_, _)
PendingFrom(bs, b) ==
  IF b > Len(bs) THEN 0 ELSE bs[b].pending + PendingFrom(bs, b + 1)
InFlight(a) == a # Null /\ a.scanProgress # Undefined
\* C5 (the bound): in every reachable state scanProgress.current <= total.
C5_ProgressBounded ==
  InFlight(currentAnalysis) =>
    currentAnalysis.scanProgress.current <= currentAnalysis.scanProgress.total
\* C5 (the steps): while the same composite stays in flight its current
\* changes only by +1, and does so exactly when one call settles.
C5_ProgressStep ==
  (InFlight(currentAnalysis) /\ InFlight(currentAnalysis')
     /\ currentAnalysis'.id = currentAnalysis.id
     /\ Len(batches') = Len(batches)) =>
    LET settledNow == PendingFrom(batches, 1) - PendingFrom(batches', 1)
    IN  currentAnalysis'.scanProgress.current =
          currentAnalysis.scanProgress.current + settledNow
\* C5: only +1 steps, one per settled call, and never current > total.
C5_ProgressMonotoneBounded == [](C5_ProgressBounded) /\ [][C5_ProgressStep]_vars

\* ---------------------------------------------------------------- C6
\* C6: each composite (id) is appended to history at most once, and a record
\* once in history stays as it is.
C6_HistoryKept ==
  \A i \in 1..Len(history) : i <= Len(history') /\ history'[i] = history[i]
C6_OnceInHistory ==
  \A b \in Batches :
    Cardinality({i \in 1..Len(history) : history[i].id = b}) <= 1
C6_FinalizedAtMostOnce == [](C6_OnceInHistory) /\ [][C6_HistoryKept]_vars

\* ---------------------------------------------------------------- C7
\* C7: as soon as one call of a batch has succeeded, the batch has raised the
\* first-result-ready signal (isAnalyzing false, view RESULTS), however many
\* failures settled before.
C7_ReadyOnFirstSuccess ==
  \A b \in Batches :
    Successes(obs[b].settled) # <<>> => obs[b].ready >= 1

\* ---------------------------------------------------------------- C8
\* C8: a batch raises first-result-ready at most once; a batch of one image
\* that succeeds raises it exactly once, and the composite of that merge is,
\* scanProgress cleared, the record its finalize appends to history.
C8_ReadyOnceAndSnapshot ==
  \A b \in Batches :
    /\ obs[b].ready <= 1
    /\ (batches[b].files = 1 /\ Successes(obs[b].settled) # <<>>) =>
         /\ obs[b].ready = 1
         /\ Finalized(b) =>
              /\ obs[b].appended = 1
              /\ FinalRecord(b) = FinalState(obs[b].readySnap)
              /\ \E i \in 1..Len(history) : history[i] = FinalState(obs[b].readySnap)
C8_Witness ==
  \E b \in Batches :
    /\ batches[b].files = 1
    /\ Successes(obs[b].settled) # <<>>
    /\ Finalized(b)
    /\ obs[b].ready = 1

\* ---------------------------------------------------------------- C9
\* C9: a batch whose calls all fail still finalizes: its finalize appends
\* exactly one record, with no items, zero totalMacros, healthScore 0 and
\* scanProgress cleared.
C9_AllFailedRecord ==
  \A b \in Batches :
    (Finalized(b) /\ Successes(obs[b].settled) = <<>>) =>
      /\ obs[b].appended = 1
      /\ FinalRecord(b).items = <<>>
      /\ FinalRecord(b).totalMacros = Macros(0, 0, 0, 0)
      /\ FinalRecord(b).healthScore = 0
      /\ FinalRecord(b).scanProgress = Undefined
      /\ \E i \in 1..Len(history) : history[i] = FinalRecord(b)

\* ---------------------------------------------------------------- C10
\* C10: the record of a batch of one image that succeeded with r has r's
\* items, healthScore, summary, restaurantName and totalMacros (absent when r
\* reports none), the batch's id, date and type, and no scanProgress.
C10_SingleImageRecord ==
  \A b \in Batches :
    (Finalized(b) /\ batches[b].files = 1 /\ Successes(obs[b].settled) # <<>>) =>
      LET r == obs[b].settled[1] IN
      FinalRecord(b) =
        [id |-> b, date |-> b, type |-> batches[b].mode,
         items |-> r.items, healthScore |-> r.healthScore, summary |-> r.summary,
         restaurantName |-> r.restaurantName, totalMacros |-> r.totalMacros,
         scanProgress |-> Undefined]

\* ---------------------------------------------------------------- C11
\* C11: a failing analyzeImage call never aborts its batch: no batch takes the
\* fatal branch of handleImagesSelected, the other calls still settle and
\* every one that resolves is merged (seen on a lone batch, whose composite no
\* other batch touches), and a batch all of whose calls have settled is
\* finalized with one append to history, failures included.
C11_FailureNeverAborts ==
  \A b \in Batches :
    /\ batches[b].pc # "fatal"
    /\ Len(obs[b].settled) = batches[b].files - batches[b].pending
    /\ (Len(batches) = 1 /\ currentAnalysis # Null) =>
          Len(merged.cur) = Len(Successes(obs[b].settled))
    /\ (batches[b].pending = 0 /\ ~FinalizePending) =>
          /\ Finalized(b)
          /\ obs[b].appended = 1
          /\ Len(obs[b].settled) = batches[b].files
          /\ \E i \in 1..Len(history) : history[i] = FinalRecord(b)

\* a finalized batch in which a call failed and a later one was merged
C11_Witness ==
  \E b \in Batches :
    /\ Finalized(b) /\ obs[b].appended = 1
    /\ \E i, j \in 1..Len(obs[b].settled) :
         i < j /\ obs[b].settled[i] = Failure /\ IsSuccess(obs[b].settled[j])
    /\ Len(FinalRecord(b).items) > 0

\* ---------------------------------------------------------------- C12
\* the step is the settlement of a failed call of batch b
FailureStep(b) ==
  /\ b <= Len(batches)
  /\ obs'[b].settled = Append(obs[b].settled, Failure)
\* C12: the merge step of a failed call raises scanProgress.current by exactly
\* 1 and leaves items, totalMacros, healthScore, summary, restaurantName, id,
\* date and type of the composite as they were.
C12_FailureFrame ==
  [][\A b \in 1..MaxBatches :
       (FailureStep(b) /\ currentAnalysis # Null) =>
         /\ currentAnalysis' # Null
         /\ ProgressCurrent(currentAnalysis') = ProgressCurrent(currentAnalysis) + 1
         /\ currentAnalysis'.items = currentAnalysis.items
         /\ currentAnalysis'.totalMacros = currentAnalysis.totalMacros
         /\ currentAnalysis'.healthScore = currentAnalysis.healthScore
         /\ currentAnalysis'.summary = currentAnalysis.summary
         /\ currentAnalysis'.restaurantName = currentAnalysis.restaurantName
         /\ currentAnalysis'.id = currentAnalysis.id
         /\ currentAnalysis'.date = currentAnalysis.date
         /\ currentAnalysis'.type = currentAnalysis.type]_vars

\* a failure has been merged into a composite that already held a result
C12_Witness ==
  \E b \in Batches :
    \E i \in 2..Len(obs[b].settled) :
      /\ obs[b].settled[i] = Failure /\ IsSuccess(obs[b].settled[i - 1])
      /\ currentAnalysis # Null /\ Len(currentAnalysis.items) > 0
      /\ ProgressCurrent(currentAnalysis) >= 2

\* ---------------------------------------------------------------- C13
\* the step is the settlement of a resolved call of batch b
SuccessStep(b) ==
  /\ b <= Len(batches)
  /\ Len(obs'[b].settled) = Len(obs[b].settled) + 1
  /\ IsSuccess(obs'[b].settled[Len(obs'[b].settled)])
IsProgressMessage(summary) == summary.fmt = "Analyzed %d items from %d images..."
\* C13: after the first successful merge of a batch the summary is that
\* result's summary verbatim, after every later successful merge it is the
\* progress-style message, failed calls settled earlier notwithstanding.
C13_SummaryOfFirstSuccess ==
  [][\A b \in 1..MaxBatches :
       SuccessStep(b) =>
         LET result == obs'[b].settled[Len(obs'[b].settled)] IN
         IF Successes(obs[b].settled) = <<>>
         THEN currentAnalysis'.summary = result.summary
         ELSE IsProgressMessage(currentAnalysis'.summary)]_vars

\* ---------------------------------------------------------------- C14
IsNamed(name) == name # NoName /\ name # ""
\* the first non-empty restaurantName among results, NoName when there is none
RECURSIVE FirstNamed(_)
FirstNamed(results) ==
  IF results = <<>> THEN NoName
  ELSE IF IsNamed(Head(results).restaurantName) THEN Head(results).restaurantName
  ELSE FirstNamed(Tail(results))
NameIsFirstNamed(analysis, results) ==
  IF IsNamed(FirstNamed(results))
  THEN analysis.restaurantName = FirstNamed(results)
  ELSE ~IsNamed(analysis.restaurantName)
\* the step is the finalize of batch b
FinalizeStep(b) ==
  /\ b <= Len(batches)
  /\ batches[b].pc = "awaiting" /\ batches'[b].pc = "done"
\* C14 (the value): the restaurantName of a composite, in flight or in history,
\* is that of the first success merged into it that reported a non-empty name.
C14_NameOfFirstNamed ==
  /\ currentAnalysis # Null => NameIsFirstNamed(currentAnalysis, merged.cur)
  /\ \A i \in 1..Len(history) : NameIsFirstNamed(history[i], merged.hist[i])
\* C14 (the frame): a non-empty restaurantName is left as it is by every merge
\* step and by finalize, which also appends it unchanged.
C14_NameKept ==
  \A b \in 1..MaxBatches :
    ( /\ SuccessStep(b) \/ FailureStep(b) \/ FinalizeStep(b)
      /\ currentAnalysis # Null
      /\ IsNamed(currentAnalysis.restaurantName) ) =>
        /\ currentAnalysis'.restaurantName = currentAnalysis.restaurantName
        /\ (FinalizeStep(b) /\ Len(history') > Len(history)) =>
              history'[Len(history')].restaurantName = currentAnalysis.restaurantName
\* C14: once non-empty the restaurantName never changes in a later merge or
\* at finalize, and it is the name of the first settled success with one.
C14_FirstNameWins == [](C14_NameOfFirstNamed) /\ [][C14_NameKept]_vars

\* a composite named by its second result and keeping that name when a third
\* result reports another name
C14_Witness ==
  /\ currentAnalysis # Null
  /\ Len(merged.cur) >= 3
  /\ ~IsNamed(merged.cur[1].restaurantName)
  /\ IsNamed(merged.cur[2].restaurantName)
  /\ IsNamed(merged.cur[3].restaurantName)
  /\ merged.cur[3].restaurantName # merged.cur[2].restaurantName
  /\ currentAnalysis.restaurantName = merged.cur[2].restaurantName

\* ---------------------------------------------------------------- C15
\* the premise: every result analyzeImage can resolve with scores in 0..100
ScoresInRange == \A result \in Results \cup ExtraResults : result.healthScore \in 0..100
\* C15: with result scores that are integers in 0..100, the healthScore of
\* the composite is an integer in 0..100 in every reachable state, whatever
\* successes and failures were merged in whatever order; so is that of every
\* record of history.
C15_ScoreInRange ==
  ScoresInRange =>
    /\ currentAnalysis # Null => currentAnalysis.healthScore \in 0..100
    /\ \A i \in 1..Len(history) : history[i].healthScore \in 0..100

\* a composite at the top of the range after a success, a failure and a success
C15_Witness ==
  /\ ScoresInRange
  /\ currentAnalysis # Null
  /\ currentAnalysis.healthScore = 100
  /\ \E b \in Batches :
       /\ Len(obs[b].settled) >= 3
       /\ IsSuccess(obs[b].settled[1])
       /\ obs[b].settled[2] = Failure
       /\ IsSuccess(obs[b].settled[3])
       /\ Len(merged.cur) = 2

\* ---------------------------------------------------------------- C16
MacroFields == {"calories", "protein", "carbs", "fat"}
\* what one merged result adds to component f: its totalMacros component when
\* it reports totalMacros, else that component summed over its items
RECURSIVE ItemsComponent(_, _)
ItemsComponent(items, f) ==
  IF items = <<>> THEN 0
  ELSE ItemsComponent(SubSeq(items, 1, Len(items) - 1), f) + items[Len(items)].macros[f]
Contribution(result, f) ==
  IF result.totalMacros # Undefined THEN result.totalMacros[f]
  ELSE ItemsComponent(result.items, f)
RECURSIVE SumContributions(_, _)
SumContributions(results, f) ==
  IF results = <<>> THEN 0
  ELSE Contribution(Head(results), f) + SumContributions(Tail(results), f)
MacrosAreSum(analysis, results) ==
  \A f \in MacroFields :
    /\ analysis.totalMacros[f] = SumContributions(results, f)
    /\ analysis.totalMacros[f] >= 0
\* C16: in every reachable state each component of the composite's totalMacros
\* is the sum, over the results merged so far, of the result's totalMacros
\* component when reported and else of that component over the result's
\* items, and none is negative; so for every record of history.
C16_MacrosAreSum ==
  /\ currentAnalysis # Null => MacrosAreSum(currentAnalysis, merged.cur)
  /\ \A i \in 1..Len(history) : MacrosAreSum(history[i], merged.hist[i])

\* a composite holding a result that reports totalMacros other than the sum
\* of its items, and a result that reports none
C16_Witness ==
  /\ currentAnalysis # Null
  /\ \E i, j \in 1..Len(merged.cur) :
       /\ merged.cur[i].totalMacros # Undefined
       /\ merged.cur[i].totalMacros # SumMacros(merged.cur[i].items)
       /\ merged.cur[j].totalMacros = Undefined
       /\ merged.cur[j].items # <<>>

\* ---------------------------------------------------------------- C17
RECURSIVE ConcatItems(_)
ConcatItems(results) ==
  IF results = <<>> THEN <<>> ELSE Head(results).items \o ConcatItems(Tail(results))
IsPrefix(s, t) == Len(s) <= Len(t) /\ SubSeq(t, 1, Len(s)) = s
\* C17 (the sequence): the items of a composite, in flight or in history, are
\* the item sequences of the results merged into it, concatenated in the order
\* the calls settled.
C17_ItemsAreConcatenation ==
  /\ currentAnalysis # Null => currentAnalysis.items = ConcatItems(merged.cur)
  /\ \A i \in 1..Len(history) : history[i].items = ConcatItems(merged.hist[i])
\* C17 (the step): a successful merge keeps the previous items as a prefix and
\* appends the result's items in their own order; a failed merge and finalize
\* leave the items as they are.
C17_ItemsStep ==
  \A b \in 1..MaxBatches :
    currentAnalysis # Null =>
      /\ SuccessStep(b) =>
           /\ IsPrefix(currentAnalysis.items, currentAnalysis'.items)
           /\ SubSeq(currentAnalysis'.items, Len(currentAnalysis.items) + 1,
                     Len(currentAnalysis'.items))
                = obs'[b].settled[Len(obs'[b].settled)].items
      /\ (FailureStep(b) \/ FinalizeStep(b)) =>
           currentAnalysis'.items = currentAnalysis.items
\* C17: the item sequence only grows by appending, and ends as the
\* concatenation of the successes' items in settlement order.
C17_ItemsAppendOnly == [](C17_ItemsAreConcatenation) /\ [][C17_ItemsStep]_vars

\* a record of history made of two different results and a failure between them
C17_Witness ==
  \E b \in Batches :
    /\ Finalized(b) /\ obs[b].appended = 1
    /\ Len(obs[b].settled) = 3
    /\ IsSuccess(obs[b].settled[1]) /\ obs[b].settled[2] = Failure
    /\ IsSuccess(obs[b].settled[3])
    /\ obs[b].settled[1].items # obs[b].settled[3].items
    /\ FinalRecord(b).items = obs[b].settled[1].items \o obs[b].settled[3].items

\* ---------------------------------------------------------------- C18
\* C18 (the records): no record of history has scanProgress.
C18_HistoryCleared ==
  \A i \in 1..Len(history) : history[i].scanProgress = Undefined
\* C18 (the tasks): finalize runs only when every call of its batch has settled.
C18_AllSettledAtFinalize ==
  \A b \in 1..MaxBatches :
    FinalizeStep(b) =>
      /\ batches[b].pending = 0
      /\ Len(obs[b].settled) = batches[b].files
      /\ batches[b].completedCount = batches[b].files
\* C18 (the record): finalize appends the composite with scanProgress cleared.
C18_AppendsCleared ==
  \A b \in 1..MaxBatches :
    (FinalizeStep(b) /\ currentAnalysis # Null) =>
      /\ Len(history') = Len(history) + 1
      /\ history'[Len(history')] = [currentAnalysis EXCEPT !.scanProgress = Undefined]
\* C18 (the merges): at finalize every merge has been applied, current == total.
C18_MergedAtFinalize ==
  \A b \in 1..MaxBatches :
    FinalizeStep(b) =>
      /\ InFlight(currentAnalysis)
      /\ currentAnalysis.scanProgress.current = currentAnalysis.scanProgress.total
      /\ currentAnalysis.scanProgress.total = batches[b].files
\* C18: finalize happens only after every task of the batch has settled and
\* its merge has been applied (current == total); the record it appends has
\* scanProgress cleared, and every record in history has no scanProgress.
C18_FinalizeWhenComplete ==
  /\ [](C18_HistoryCleared)
  /\ [][C18_AllSettledAtFinalize /\ C18_AppendsCleared /\ C18_MergedAtFinalize]_vars
\* (what of C18 holds in every behaviour: all but the merges)
C18_HoldsButMerged ==
  [](C18_HistoryCleared) /\ [][C18_AllSettledAtFinalize /\ C18_AppendsCleared]_vars

\* ---------------------------------------------------------------- C20
\* C20: between the start of a batch and its finalize, currentAnalysis is
\* changed only by the merge steps and the finalize of that batch: while the
\* batch awaits its calls no history selection, no other scan and no other
\* batch replaces or alters it.
C20_OwnedByBatch ==
  [][\A b \in 1..MaxBatches :
       ( /\ b <= Len(batches)
         /\ batches[b].pc = "awaiting"
         /\ currentAnalysis' # currentAnalysis ) =>
           SuccessStep(b) \/ FailureStep(b) \/ FinalizeStep(b)]_vars
\* ---------------------------------------------------------------- C19
\* C19 (nothing lost): whatever updates a render has processed together, the
\* items and totalMacros of the composite are those of every result merged
\* into it, in the order the calls settled.
C19_NothingLost ==
  currentAnalysis # Null =>
    /\ currentAnalysis.items = ConcatItems(merged.cur)
    /\ MacrosAreSum(currentAnalysis, merged.cur)
\* C19 (one after the other): once the queue is processed a lone batch shows
\* the composite its settlements produce when each merge is applied to the
\* result of the previous one, its progress counting every settled call.
C19_AppliedInSequence ==
  (Len(batches) = 1 /\ updateQueue = <<>>) =>
    LET sequential == FoldMerge(InitialAnalysis(1, batches[1].mode, batches[1].files),
                                obs[1].settled, batches[1].files)
    IN  /\ batches[1].pc = "awaiting" =>
             /\ currentAnalysis = sequential
             /\ currentAnalysis.scanProgress.current = Len(obs[1].settled)
        /\ batches[1].pc = "done" =>
             /\ obs[1].preFinal = sequential
             /\ history = <<FinalState(sequential)>>
\* C19: merge steps on a composite never compute from the same prior
\* snapshot: when several calls settle before the next render each merge is
\* applied to the result of the previous one, and no settlement's items,
\* macros or progress increment is lost.
C19_MergesDoNotInterleave == C19_NothingLost /\ C19_AppliedInSequence

\* one render has processed three updates of a batch, two of them merges of
\* different results
C19_Witness ==
  /\ updateQueue = <<>>
  /\ merged.atOnce >= 3
  /\ Len(batches) = 1 /\ batches[1].pc = "awaiting"
  /\ Len(merged.cur) = 2 /\ merged.cur[1] # merged.cur[2]
  /\ Len(obs[1].settled) = 3

\* ---------------------------------------------------------------- C21
\* C21 (the end that is evicted): the persistence effect changes history only
\* by removing its oldest record.
C21_EvictsOldest ==
  (storage.effect = "due" /\ history' # history) => history' = Tail(history)
\* C21 (the retries): a write that fails for size is retried with one record
\* less until a write succeeds or one record remains, so when the effect is at
\* rest either history is saved or its single record does not fit; and no
\* error leaves the effect.
C21_RetriesUntilSaved ==
  /\ storage.effect # "escaped"
  /\ storage.effect = "idle" =>
        \/ storage.saved = history
        \/ Len(history) <= 1 /\ ~Fits(history)
\* C21: on a quota failure the oldest record is removed and the write
\* retried, one record at a time, until a write succeeds or one record
\* remains; only the oldest end is evicted and no error escapes the effect.
C21_EvictAndRetry == [](C21_RetriesUntilSaved) /\ [][C21_EvictsOldest]_vars

\* ---------------------------------------------------------------- C22
IsIn(record, records) == \E i \in 1..Len(records) : records[i] = record
\* C22: when the quota admits the newest record alone, the persistence effect
\* ends with that record in the saved copy, whatever older records it has to
\* evict.
C22_NewestPersisted ==
  ( /\ storage.effect \in {"idle", "escaped"}
    /\ storage.newest # Null
    /\ SizeOf(storage.newest) <= storage.capacity ) =>
      IsIn(storage.newest, storage.saved)

\* ---------------------------------------------------------------- C30
\* C30: when the persistence effect has run and no history update is pending,
\* the sequence saved under nutriscan_history is the in-memory history, also
\* after a quota failure.
C30_SavedIsHistory ==
  storage.effect = "idle" => storage.saved = history

\* ---------------------------------------------------------------- C23
\* the step in which the catch of handleImagesSelected runs for batch b
FatalStep(b) ==
  /\ b <= Len(batches)
  /\ batches[b].pc = "awaiting" /\ batches'[b].pc = "fatal"
\* C23 (the catch): when dispatch fails the fatal error is reported,
\* isAnalyzing is reset, the view returns to DASHBOARD and history is as it was.
C23_FatalStep ==
  \A b \in 1..MaxBatches :
    FatalStep(b) =>
      /\ isAnalyzing' = FALSE
      /\ currentView' = "DASHBOARD"
      /\ history' = history
\* C23 (no finalize): the finalize of a batch whose dispatch failed never runs.
C23_FatalNotFinalized ==
  \A b \in Batches : batches[b].pc = "fatal" => obs[b].appended = 0
\* a step of batch b that appends to history
AppendStep(b) ==
  /\ b <= Len(batches)
  /\ obs'[b].appended > obs[b].appended
\* C23: if dispatch itself fails the caller is told of a fatal error,
\* isAnalyzing is reset to false, the view returns to DASHBOARD and finalize
\* does not run: the batch leaves history unchanged.
C23_DispatchFailure ==
  /\ [](C23_FatalNotFinalized)
  /\ [][C23_FatalStep /\ \A b \in 1..MaxBatches :
           AppendStep(b) => (batches[b].pc = "awaiting" /\ batches'[b].pc = "done")]_vars

\* a batch whose dispatch failed, all of its calls settled since, nothing in
\* history
C23_Witness ==
  \E b \in Batches :
    /\ batches[b].pc = "fatal" /\ batches[b].pending = 0
    /\ batches[b].files >= 2
    /\ \E i \in 1..Len(obs[b].settled) : IsSuccess(obs[b].settled[i])
    /\ history = <<>>


\* ----------------------------------------------------------------------- C24
Requests == 1..MaxRequests

\* a GET of the given path is answered in this step
Answered(path) ==
  /\ server'.response # server.response
  /\ server'.response.path = path

\* C24: GET /api/results/latest answers 404 exactly when no analyze request
\* has completed successfully, and otherwise returns the record of the request
\* whose AI call returned most recently; GET /api/results reports as total the
\* number of analyze requests that completed successfully.
C24_ProjectionsStep ==
  /\ Answered("latest") =>
        IF server.succeeded = <<>>
        THEN server'.response.status = 404
        ELSE /\ server'.response.status = 200
             /\ server'.response.body.id = server.succeeded[Len(server.succeeded)]
  /\ Answered("results") =>
        /\ server'.response.total = Len(server.succeeded)
        /\ server'.response.total =
             Cardinality({r \in 1..Len(server.requests) : server.requests[r].status = 200})

C24_Projections == [][C24_ProjectionsStep]_vars

\* two requests completed in the order opposite to their arrival, and the
\* latest record served is that of the one that arrived first
C24_Witness ==
  /\ server.succeeded = <<2, 1>>
  /\ server.response # Null
  /\ server.response.path = "latest"
  /\ server.response.status = 200
  /\ server.response.body.id = 1

\* ----------------------------------------------------------------------- C25
\* C25: a POST /api/analyze without an image file is answered 400, one whose
\* metadata does not parse or whose AI call fails is answered 500; neither
\* changes scanHistory, and scanHistory never shrinks.
C25_Statuses ==
  \A r \in 1..Len(server.requests) :
    LET request == server.requests[r] IN
    /\ ~request.hasFile => request.status = 400
    /\ (request.hasFile /\ (~request.metadataParses \/ request.ai = "threw"))
         => request.status = 500

\* request r is answered with an error in this step
C25_Refused(r) ==
  /\ r <= Len(server'.requests)
  /\ server'.requests[r].status \in {400, 500}
  /\ r <= Len(server.requests) => server.requests[r].status = 0

C25_RefusalStep ==
  /\ IsPrefix(server.scanHistory, server'.scanHistory)
  /\ \A r \in Requests : C25_Refused(r) => server'.scanHistory = server.scanHistory

C25_ErrorsLeaveHistory == [](C25_Statuses) /\ [][C25_RefusalStep]_vars

\* after a success, a request with neither file nor parsable metadata has
\* been answered 400 and one whose AI call threw has been answered 500
C25_Witness ==
  /\ Len(server.scanHistory) = 1
  /\ Len(server.requests) = 3
  /\ \E r \in Requests : server.requests[r].ai = "threw" /\ server.requests[r].status = 500
  /\ \E r \in Requests :
       /\ ~server.requests[r].hasFile
       /\ ~server.requests[r].metadataParses
       /\ server.requests[r].status = 400

\* ----------------------------------------------------------------------- C28
\* C28: the Scanner never holds more than MAX_IMAGES captured images and
\* never hands more than MAX_IMAGES files, nor none, to onImagesSelected.
C28_AtMostMaxImages ==
  /\ Len(scanner.capturedImages) <= MAX_IMAGES
  /\ \A i \in 1..Len(scanner.handed) : scanner.handed[i] \in 1..MAX_IMAGES

\* what does hold: nothing is ever handed over empty
C28_NeverEmpty == \A i \in 1..Len(scanner.handed) : scanner.handed[i] > 0

\* ----------------------------------------------------------------------- C26
\* a merge step or the finalize of batch b
BatchStep(b) == SuccessStep(b) \/ FailureStep(b) \/ FinalizeStep(b)

\* C26 (the composite): while currentAnalysis is another batch's composite or
\* a record opened from history, no step of batch b changes it.
C26_ForeignCompositeKept ==
  \A b \in 1..MaxBatches :
    (BatchStep(b) /\ currentAnalysis # Null /\ currentAnalysis.id # b) =>
      currentAnalysis' = currentAnalysis

\* C26 (the record): the finalize of batch b appends one record, with b's id.
C26_AppendsOwn ==
  \A b \in 1..MaxBatches :
    FinalizeStep(b) =>
      /\ Len(history') = Len(history) + 1
      /\ history'[Len(history')].id = b

\* C26: batches are isolated: the late merges and the finalize of an earlier
\* batch never add items, macros, score, progress or a total to a newer
\* composite or an opened history record, and each finalize appends the
\* composite of its own batch.
C26_BatchesIsolated == [][C26_ForeignCompositeKept /\ C26_AppendsOwn]_vars

\* ----------------------------------------------------------------------- C27
\* C27: once every call of every started batch has settled and each batch has
\* finalized, the app has left the analyzing state, whatever the pattern of
\* successes and failures.
C27_LeavesAnalyzing ==
  (Batches # {} /\ \A b \in Batches : Finalized(b)) => ~isAnalyzing

\* ----------------------------------------------------------------------- C29
\* C29: the records of history have pairwise distinct ids.
C29_DistinctIds ==
  \A i, j \in 1..Len(history) : history[i].id = history[j].id => i = j
====
